---- MODULE Spec2Model ----
(***************************************************************************)
(* SamSiteModel (src/externalized/strategic/SamSiteModel.cc): a SAM site   *)
(* is a sector id plus a footprint of two tile indices.  The module models *)
(* the constructor, deserialize, doesSamExistHere and validateData, and    *)
(* the objects a caller holds after the calls it made.                     *)
(***************************************************************************)
EXTENDS Integers, Sequences, FiniteSets, TLC

VARIABLES models, call

vars == <<models, call>>

(***************************************************************************)
(* Program constants.                                                      *)
(***************************************************************************)
SAM_GRAPHIC_INDEX_NE_SW == 3
SAM_GRAPHIC_INDEX_NW_SE == 4
\* WorldDef.h (included by SamSiteModel.cc): the map is 160 tiles wide.
WORLD_COLS == 160
\* SAM_Sites.h; "Game saves, Skyrider and Meanwhile dialogues all assume 4".
NUMBER_OF_SAMS == 4
\* JA2Types.h: GridNo is a 16 bit signed integer (typedef INT16 GridNo).
GridNoBits == 16

ErrLength == "SAM site gridNos must be an array of 2 integers"
ErrAdjacent == "SAM site gridNos must be 2 adjacent tiles"
ErrCount == "Unexpected number of SAM sites"
\* the exception JsonUtility::parseSectorID raises for a bad designator
ErrSector == "parseSectorID: invalid sector"
\* Assert(gridNos[0] > gridNos[1]) failing in a build that checks assertions
ErrAssert == "Assert(gridNos[0] > gridNos[1])"

(***************************************************************************)
(* Bounds of the model.                                                    *)
(***************************************************************************)
\* size of the loader's collection in the specification of a load
MaxModels == 5
\* longest gridNos array of an input record
MaxLen == 3

(***************************************************************************)
(* Input domains.                                                          *)
(***************************************************************************)
\* JSON integers (GetInt() is a 32 bit int); 65537 does not fit a GridNo
JsonInts == {0, 1, 2, WORLD_COLS - 1, WORLD_COLS, WORLD_COLS + 1, 65537}
\* JSON integers of the arrays of a wrong length
FewInts == {0, 1, WORLD_COLS}
\* tile indices handed to the constructor and to doesSamExistHere
GridNos == {0, 1, 2, WORLD_COLS - 1, WORLD_COLS, WORLD_COLS + 1}
\* sector designators: two a parser accepts, two it rejects
SectorStrings == {"A1", "B2", "Q1", ""}
\* sector ids handed to the constructor directly
SectorIds == {0}

\* the input domains of a load: one site of each orientation in sector A1
LoadInts == {0, 1, WORLD_COLS}
LoadPadding == {0}
LoadSectorStrings == {"A1", "Q1"}
LoadGridNos == {0, 1, 2}

ArraysOfLen(S, n) == [1..n -> S]

\* arrays of every length 0..MaxLen: those of length 2 range over S, the
\* others over F
Arrays(S, F) ==
    ArraysOfLen(S, 2)
        \cup UNION {ArraysOfLen(F, n) : n \in (0..MaxLen) \ {2}}

Records == [sector : SectorStrings, gridNos : Arrays(JsonInts, FewInts)]

LoadRecords ==
    [sector : LoadSectorStrings, gridNos : Arrays(LoadInts, LoadPadding)]

(***************************************************************************)
(* External collaborators.                                                 *)
(***************************************************************************)
\* JsonUtility::parseSectorID: "A1".."P16" -> (row-1)*16 + (col-1), throws
\* on anything else.
parseSectorID(s) ==
    CASE s = "A1" -> [ok |-> TRUE, id |-> 0]
      [] s = "B2" -> [ok |-> TRUE, id |-> 17]
      [] OTHER -> [ok |-> FALSE, id |-> 0]

\* SGPSector(UINT32 sectorId): x and y from the id, z = 0 (surface level)
SGPSector(sectorId) ==
    [x |-> (sectorId % 16) + 1, y |-> (sectorId \div 16) + 1, z |-> 0]

\* sectors a caller may query: A1, B2, A2 and the basement below A1
QuerySectors ==
    {SGPSector(0), SGPSector(17), SGPSector(1), [x |-> 1, y |-> 1, z |-> 1]}

LoadQuerySectors == {SGPSector(0), SGPSector(1)}

(***************************************************************************)
(* SamSiteModel::SamSiteModel                                              *)
(***************************************************************************)
AssertHolds(gridNos_) == gridNos_[1] > gridNos_[2]

\* a slip: the test for the horizontal pair, with the constants swapped over
graphicIndexOfHorizontal(gridNos_) ==
    IF gridNos_[1] - gridNos_[2] = 1
        THEN SAM_GRAPHIC_INDEX_NW_SE
        ELSE SAM_GRAPHIC_INDEX_NE_SW

graphicIndexOf(gridNos_) ==
    IF gridNos_[1] - gridNos_[2] = WORLD_COLS
        THEN SAM_GRAPHIC_INDEX_NE_SW
        ELSE SAM_GRAPHIC_INDEX_NW_SE

SamSiteModel(sectorId_, gridNos_) ==
    [sectorId |-> sectorId_,
     gridNos |-> gridNos_,
     graphicIndex |-> graphicIndexOf(gridNos_)]

\* the outcome of "new SamSiteModel(...)": a build that checks assertions
\* stops at a failed Assert, any other build constructs the object
New(sectorId_, gridNos_, checked) ==
    IF checked /\ ~AssertHolds(gridNos_)
        THEN [err |-> ErrAssert, model |-> <<>>, passed |-> gridNos_]
        ELSE [err |-> "", model |-> <<SamSiteModel(sectorId_, gridNos_)>>,
              passed |-> gridNos_]

Throw(msg) == [err |-> msg, model |-> <<>>, passed |-> <<>>]

(***************************************************************************)
(* SamSiteModel::doesSamExistHere                                          *)
(***************************************************************************)
\* a slip: only the first element is compared
findFirstOnly(arr, i, value) ==
    IF i <= Len(arr) /\ arr[i] = value THEN i ELSE Len(arr) + 1

\* std::find(first, last, value): index of the first match, Len + 1 = end
RECURSIVE find(_, _, _)
find(arr, i, value) ==
    IF i > Len(arr) THEN Len(arr) + 1
    ELSE IF arr[i] = value THEN i
    ELSE find(arr, i + 1, value)

doesSamExistHere(m, sector, gridNo) ==
    /\ sector = SGPSector(m.sectorId)
    /\ find(m.gridNos, 1, gridNo) # Len(m.gridNos) + 1

(***************************************************************************)
(* SamSiteModel::deserialize                                               *)
(***************************************************************************)
\* static_cast<GridNo>(int): the value modulo 2^16, as a signed number
ToGridNo(n) ==
    LET w == 2 ^ GridNoBits
        r == n % w
    IN IF r >= w \div 2 THEN r - w ELSE r

\* a slip: std::less<int>, an ascending sort
less(a, b) == a < b

\* std::greater<int>
greater(a, b) == a > b

\* std::sort over a sequence with the comparator greater: insertion sort
RECURSIVE insert(_, _)
insert(x, s) ==
    IF s = <<>> THEN <<x>>
    ELSE IF greater(Head(s), x) THEN <<Head(s)>> \o insert(x, Tail(s))
    ELSE <<x>> \o s

RECURSIVE sort(_)
sort(s) == IF s = <<>> THEN <<>> ELSE insert(Head(s), sort(Tail(s)))

\* a slip: only arrays that are too short are refused
sizeTooSmall(g) == Len(g) < 2

\* g.Size() != 2
sizeIsWrong(g) == Len(g) # 2

\* a slip: every difference up to 1 passes, that of two equal tiles too
notAdjacentAboveOne(diff) == diff > 1 /\ diff # WORLD_COLS

\* diff != 1 && diff != WORLD_COLS
notAdjacent(diff) == diff # 1 /\ diff # WORLD_COLS

\* the tiles read, cast and sorted: gridNoList when the constructor is called
sortedGridNoList(g) == sort(<<ToGridNo(g[1]), ToGridNo(g[2])>>)

\* a slip: the array is checked before the sector is parsed
deserializeArrayFirst(obj, checked) ==
    LET g == obj.gridNos IN
    IF sizeIsWrong(g) THEN Throw(ErrLength)
    ELSE LET gridNoList == sortedGridNoList(g)
             diff == gridNoList[1] - gridNoList[2]
             p == parseSectorID(obj.sector)
         IN IF notAdjacent(diff) THEN Throw(ErrAdjacent)
            ELSE IF ~p.ok THEN Throw(ErrSector)
            ELSE New(p.id, gridNoList, checked)

deserialize(obj, checked) ==
    LET p == parseSectorID(obj.sector) IN
    IF ~p.ok THEN Throw(ErrSector)
    ELSE LET g == obj.gridNos IN
        IF sizeIsWrong(g) THEN Throw(ErrLength)
        ELSE LET gridNoList == sortedGridNoList(g)
                 diff == gridNoList[1] - gridNoList[2]
             IN IF notAdjacent(diff)
                    THEN Throw(ErrAdjacent)
                    ELSE New(p.id, gridNoList, checked)

(***************************************************************************)
(* SamSiteModel::validateData                                              *)
(***************************************************************************)
\* a slip: only a collection that is too small is refused
validateDataAtLeast(ms) == IF Len(ms) < NUMBER_OF_SAMS THEN ErrCount ELSE ""

validateData(ms) == IF Len(ms) # NUMBER_OF_SAMS THEN ErrCount ELSE ""

(***************************************************************************)
(* The state: the objects constructed so far and the last call made.       *)
(***************************************************************************)
NoRecord == [sector |-> "", gridNos |-> <<>>]
NoSector == [x |-> 0, y |-> 0, z |-> 0]

NoCall ==
    [op |-> "none", obj |-> NoRecord, args |-> <<>>, idx |-> 0,
     sector |-> NoSector, gridNo |-> 0, size |-> 0,
     err |-> "", model |-> <<>>, passed |-> <<>>, found |-> FALSE]

Init ==
    /\ models = <<>>
    /\ call = NoCall

\* new SamSiteModel(sectorId, gridNos) called directly
Construct ==
    \E id \in SectorIds, a \in GridNos, b \in GridNos, checked \in BOOLEAN :
        LET r == New(id, <<a, b>>, checked) IN
        /\ models = <<>>
        /\ call' = [NoCall EXCEPT !.op = "SamSiteModel",
                                  !.args = <<id, a, b>>,
                                  !.err = r.err, !.model = r.model,
                                  !.passed = r.passed]
        /\ models' = models \o r.model

\* the caller's view of deserialize(obj): the outcome, and the object kept
Deserialized(obj, checked) ==
    LET r == deserialize(obj, checked) IN
    /\ call' = [NoCall EXCEPT !.op = "deserialize", !.obj = obj,
                              !.err = r.err, !.model = r.model,
                              !.passed = r.passed]
    /\ models' = models \o r.model

\* deserialize(obj) of one record, when no object exists yet
Deserialize ==
    \E obj \in Records, checked \in BOOLEAN :
        /\ models = <<>>
        /\ Deserialized(obj, checked)

\* deserialize(obj) of the next record of a load
LoadRecord ==
    \E obj \in LoadRecords, checked \in BOOLEAN :
        /\ Len(models) < MaxModels
        /\ Deserialized(obj, checked)

\* a slip: the query stores the tile it was asked about in the footprint
QueriedAssigning(i, sector, gridNo) ==
    /\ call' = [NoCall EXCEPT !.op = "doesSamExistHere", !.idx = i,
                              !.sector = sector, !.gridNo = gridNo,
                              !.found = doesSamExistHere(models[i],
                                                         sector, gridNo)]
    /\ models' = [models EXCEPT ![i].gridNos = <<gridNo, @[2]>>]

\* models[i]->doesSamExistHere(sector, gridNo)
Queried(i, sector, gridNo) ==
    /\ call' = [NoCall EXCEPT !.op = "doesSamExistHere", !.idx = i,
                              !.sector = sector, !.gridNo = gridNo,
                              !.found = doesSamExistHere(models[i],
                                                         sector, gridNo)]
    /\ UNCHANGED models

DoesSamExistHere ==
    \E i \in 1..Len(models), sector \in QuerySectors, gridNo \in GridNos :
        Queried(i, sector, gridNo)

LoadQuery ==
    \E i \in 1..Len(models), sector \in LoadQuerySectors,
       gridNo \in LoadGridNos :
        Queried(i, sector, gridNo)

\* validateData over the first n objects of the collection
ValidateData ==
    \E n \in 0..Len(models) :
        /\ call' = [NoCall EXCEPT !.op = "validateData", !.size = n,
                                  !.err = validateData(SubSeq(models, 1, n))]
        /\ UNCHANGED models

\* single calls on one object, over the wide input domains
Next == Construct \/ Deserialize \/ DoesSamExistHere

Spec == Init /\ [][Next]_vars

\* a load: records deserialized into one collection, queried and validated
NextLoad == LoadRecord \/ LoadQuery \/ ValidateData

SpecLoad == Init /\ [][NextLoad]_vars

(***************************************************************************)
(* Properties.                                                             *)
(***************************************************************************)
Max(a, b) == IF a > b THEN a ELSE b
Min(a, b) == IF a > b THEN b ELSE a

\* the last call was deserialize, on a record whose sector parses
DeserializeCalled == call.op = "deserialize"
SectorParses == parseSectorID(call.obj.sector).ok
Declared == call.obj.gridNos
Returned == call.err = "" /\ Len(call.model) = 1

\* a value a GridNo can hold
IsGridNo(n) == -(2 ^ (GridNoBits - 1)) <= n /\ n < 2 ^ (GridNoBits - 1)

\* larger declared value minus smaller declared value is 1 or WORLD_COLS
DeclaredAdjacent ==
    Max(Declared[1], Declared[2]) - Min(Declared[1], Declared[2])
        \in {1, WORLD_COLS}

\* neighbours on the grid of WORLD_COLS columns: same row and neighbouring
\* columns, or same column and neighbouring rows
Row(t) == t \div WORLD_COLS
Col(t) == t % WORLD_COLS
GridNeighbours(s, t) ==
    \/ Row(s) = Row(t) /\ Max(Col(s), Col(t)) - Min(Col(s), Col(t)) = 1
    \/ Col(s) = Col(t) /\ Max(Row(s), Row(t)) - Min(Row(s), Row(t)) = 1

\* C1: for two distinct tile indices a, b whose difference is 1 or
\* WORLD_COLS, deserialize of a record listing them in either order
\* succeeds and returns gridNos = (max(a,b), min(a,b)).
C1_OrderOfTilesIrrelevant ==
    (/\ DeserializeCalled /\ SectorParses /\ Len(Declared) = 2
     /\ IsGridNo(Declared[1]) /\ IsGridNo(Declared[2])
     /\ Declared[1] # Declared[2]
     /\ DeclaredAdjacent)
    => /\ Returned
       /\ call.model[1].gridNos
            = <<Max(Declared[1], Declared[2]), Min(Declared[1], Declared[2])>>

\* a record listing the smaller tile first came back with the larger first
C1_Witness ==
    /\ DeserializeCalled /\ Len(Declared) = 2
    /\ Declared[1] < Declared[2]
    /\ Returned
    /\ call.model[1].gridNos = <<Declared[2], Declared[1]>>

\* C2: a model built from a pair gridNos[0] > gridNos[1] has graphicIndex
\* NE/SW exactly when the difference is WORLD_COLS and NW/SE in every other
\* case, never a third value.
C2_GraphicIndexFromDifference ==
    \A i \in 1..Len(call.model) :
        LET m == call.model[i]
            d == m.gridNos[1] - m.gridNos[2]
        IN m.gridNos[1] > m.gridNos[2]
            => /\ (m.graphicIndex = SAM_GRAPHIC_INDEX_NE_SW) <=> (d = WORLD_COLS)
               /\ (m.graphicIndex = SAM_GRAPHIC_INDEX_NW_SE) <=> (d # WORLD_COLS)
               /\ m.graphicIndex
                    \in {SAM_GRAPHIC_INDEX_NE_SW, SAM_GRAPHIC_INDEX_NW_SE}

\* the constructor was called with a pair that is neither 1 nor WORLD_COLS
\* apart and chose NW/SE
C2_Witness ==
    /\ call.op = "SamSiteModel"
    /\ Len(call.model) = 1
    /\ call.model[1].gridNos[1] - call.model[1].gridNos[2] = 2
    /\ call.model[1].graphicIndex = SAM_GRAPHIC_INDEX_NW_SE

\* C3: for a record with a parseable sector and an array of two integers,
\* deserialize returns a model exactly when the larger declared value minus
\* the smaller is 1 or WORLD_COLS, and otherwise fails with "must be 2
\* adjacent tiles" and no model.
C3_AcceptsIffDeclaredAdjacent ==
    (DeserializeCalled /\ SectorParses /\ Len(Declared) = 2)
    => IF DeclaredAdjacent
          THEN Returned
          ELSE call.err = ErrAdjacent /\ call.model = <<>>

\* C4 as stated: every record whose array has a length other than 2 fails
\* with "must be an array of 2 integers" and yields no model.
C4_WrongLengthAlwaysLengthError ==
    (DeserializeCalled /\ Len(Declared) # 2)
    => call.err = ErrLength /\ call.model = <<>>

\* C4 amended: a record whose array has a length other than 2 yields no
\* model; it fails with "must be an array of 2 integers" when its sector
\* parses and with the sector parser's error when it does not; a model is
\* returned only for arrays of 2 entries.
C4_WrongLengthFails ==
    DeserializeCalled
    => /\ Len(Declared) # 2
            => /\ call.model = <<>>
               /\ call.err = (IF SectorParses THEN ErrLength ELSE ErrSector)
       /\ call.model # <<>> => Len(Declared) = 2

\* an array of three entries, the first two adjacent, was refused for its
\* length
C4_Witness ==
    /\ DeserializeCalled /\ SectorParses
    /\ Len(Declared) = 3
    /\ Declared[1] - Declared[2] = 1
    /\ call.err = ErrLength /\ call.model = <<>>

\* C5: doesSamExistHere returns true exactly when the queried sector is the
\* model's sector and the queried tile is gridNos[0] or gridNos[1].
C5_ExistsIffSectorAndTile ==
    call.op = "doesSamExistHere"
    => LET m == models[call.idx] IN
       call.found
         <=> /\ call.sector = SGPSector(m.sectorId)
             /\ call.gridNo \in {m.gridNos[1], m.gridNos[2]}

\* a query for the second tile of the footprint, in the right sector, is true
C5_Witness ==
    /\ call.op = "doesSamExistHere"
    /\ call.found
    /\ call.gridNo = models[call.idx].gridNos[2]
    /\ call.gridNo # models[call.idx].gridNos[1]

\* C6: validateData fails with "Unexpected number of SAM sites" exactly when
\* the size of the collection differs from NUMBER_OF_SAMS, and returns
\* silently when it is equal.
C6_ValidateCountsOnly ==
    call.op = "validateData"
    => /\ (call.err = ErrCount) <=> (call.size # NUMBER_OF_SAMS)
       /\ call.size = NUMBER_OF_SAMS => call.err = ""

\* a collection of NUMBER_OF_SAMS models, of both orientations, validated
C6_Witness ==
    /\ call.op = "validateData"
    /\ call.size = NUMBER_OF_SAMS
    /\ call.err = ""
    /\ \E i, j \in 1..NUMBER_OF_SAMS :
          models[i].graphicIndex # models[j].graphicIndex

\* C7: the two tiles of every model deserialize returns are neighbours on
\* the grid: same row and neighbouring columns, or same column and
\* neighbouring rows.
C7_FootprintIsGridAdjacent ==
    (DeserializeCalled /\ Returned)
    => GridNeighbours(call.model[1].gridNos[1], call.model[1].gridNos[2])

\* C8: whenever deserialize reaches the constructor, the pair passed is
\* strictly descending: the assertion holds and the model returned has
\* gridNos[0] > gridNos[1].
C8_AssertionHoldsFromDeserialize ==
    (DeserializeCalled /\ call.passed # <<>>)
    => /\ call.passed[1] > call.passed[2]
       /\ call.err # ErrAssert
       /\ Returned
       /\ call.model[1].gridNos[1] > call.model[1].gridNos[2]

\* deserialize reached the constructor for a record listing the smaller
\* tile first
C8_Witness ==
    /\ DeserializeCalled
    /\ call.passed # <<>>
    /\ Declared[1] < Declared[2]
    /\ call.passed = <<Declared[2], Declared[1]>>

\* C9: no call changes a model that exists: every model of the collection
\* is still there, with the same sectorId, gridNos and graphicIndex, after
\* every deserialize, doesSamExistHere and validateData, failed or not.
C9_ModelsNeverChange ==
    [][/\ Len(models') >= Len(models)
       /\ \A i \in 1..Len(models) :
            /\ models'[i].sectorId = models[i].sectorId
            /\ models'[i].gridNos = models[i].gridNos
            /\ models'[i].graphicIndex = models[i].graphicIndex]_vars

\* a query that found the site and a failed validation both had models to
\* change
C9_Witness ==
    /\ Len(models) >= 2
    /\ \/ call.op = "doesSamExistHere" /\ call.found
       \/ call.op = "validateData" /\ call.err = ErrCount

\* C10: deserialize checks the sector, then the length, then adjacency, and
\* stops at the first failure: an unparseable sector gives the parser's
\* error whatever the array is, a parseable sector with a wrong length gives
\* the length error, the adjacency error needs an array of 2, and the
\* constructor is reached only when all three checks passed.
C10_ChecksInOrder ==
    DeserializeCalled
    => /\ ~SectorParses
            => call.err = ErrSector /\ call.model = <<>> /\ call.passed = <<>>
       /\ (SectorParses /\ Len(Declared) # 2) => call.err = ErrLength
       /\ call.err = ErrAdjacent => (SectorParses /\ Len(Declared) = 2)
       /\ call.passed # <<>>
            => /\ SectorParses
               /\ Len(Declared) = 2
               /\ call.passed = sortedGridNoList(Declared)
               /\ call.passed[1] - call.passed[2] \in {1, WORLD_COLS}

\* a record wrong in all three ways failed on its sector
C10_Witness ==
    /\ DeserializeCalled
    /\ ~SectorParses
    /\ Len(Declared) = 2
    /\ ~DeclaredAdjacent
    /\ call.err = ErrSector

====
